---- MODULE Spec2Model ----
\* TrigramModel (ml-assignment/src/ngram_model.py): an n-gram language model
\* with rare-token folding, per-sentence padded window counting and weighted
\* random generation.
\*
\* A string is a sequence of one-character strings, a token is a string, a
\* context is a tuple of n-1 tokens.  A dict that the code iterates
\* (counts[context]) is a sequence of [word, count] records in insertion
\* order; a dict that is only looked up (counts, context_totals) is a
\* function whose domain is its key set.
EXTENDS Integers, Sequences, FiniteSets, TLC

\* ------------------------------------------------------------------ bounds
MaxN == 3          \* n ranges over 2..MaxN
MaxMinCount == 2   \* min_count ranges over 1..MaxMinCount
MaxRawLen == 2     \* raw texts: every string over Alphabet up to this length
MaxPieces == 3     \* composed corpora: up to this many words / full stops
MaxGenLen == 2     \* max_length ranges over 0..MaxGenLen

\* --------------------------------------------------------------- constants
START_TOKEN == <<"<", "s", ">">>
END_TOKEN == <<"<", "/", "s", ">">>
UNK_TOKEN == <<"<", "u", "n", "k", ">">>
Reserved == {START_TOKEN, END_TOKEN, UNK_TOKEN}

\* ------------------------------------------------------------ characters
\* The character classes the code's str.strip, str.lower and regular
\* expressions distinguish, over the characters the model's texts use.
WordChars == {"a", "b", "s", "A"}
DelimChars == {".", "!", "?"}
SpaceChars == {" "}
IsWordChar(c) == c \in WordChars
IsDelim(c) == c \in DelimChars
IsSpace(c) == c \in SpaceChars
LowerChar(c) == IF c = "A" THEN "a" ELSE c

\* ------------------------------------------------------------------ inputs
\* Raw texts exercise strip, lower, the delimiter runs and the word runs;
\* composed corpora (words and full stops, a space after each) exercise the
\* vocabulary and the counting.
Alphabet == {"a", "A", " ", "."}

RECURSIVE StringsUpTo(_)
StringsUpTo(k) ==
    IF k = 0 THEN {<<>>}
    ELSE LET shorter == StringsUpTo(k - 1)
         IN  shorter \cup {Append(s, c) : s \in shorter, c \in Alphabet}

Pieces == {<<"a">>, <<"b">>, <<".">>}

RECURSIVE Render(_)
Render(ps) == IF ps = <<>> THEN <<>> ELSE Head(ps) \o <<" ">> \o Render(Tail(ps))

RECURSIVE PieceSeqsUpTo(_)
PieceSeqsUpTo(k) ==
    IF k = 0 THEN {<<>>}
    ELSE LET shorter == PieceSeqsUpTo(k - 1)
         IN  shorter \cup {Append(s, p) : s \in shorter, p \in Pieces}

\* "a b. a b." (spec scenario) and a text that spells the two markers.
BigramScenario == <<"a", " ", "b", ".", " ", "a", " ", "b", ".">>
MarkerText == START_TOKEN \o <<" ">> \o END_TOKEN
ScenarioTexts == {BigramScenario, MarkerText}

Texts ==
    StringsUpTo(MaxRawLen)
        \cup {Render(ps) : ps \in PieceSeqsUpTo(MaxPieces)}
        \cup ScenarioTexts

\* ----------------------------------------------------------- str helpers
RECURSIVE LStrip(_)
LStrip(s) == IF s # <<>> /\ IsSpace(Head(s)) THEN LStrip(Tail(s)) ELSE s

RECURSIVE RStrip(_)
RStrip(s) ==
    IF s # <<>> /\ IsSpace(s[Len(s)]) THEN RStrip(SubSeq(s, 1, Len(s) - 1)) ELSE s

\* str.strip()
Strip(s) == RStrip(LStrip(s))

\* str.lower()
Lower(s) == [k \in 1..Len(s) |-> LowerChar(s[k])]

\* re.split(r"[.!?]+", s): the pieces between runs of delimiters, empty
\* pieces included.  cur is the piece being read, inRun whether the previous
\* character was a delimiter.
RECURSIVE ReSplit(_, _, _)
ReSplit(s, cur, inRun) ==
    IF s = <<>> THEN <<cur>>
    ELSE IF IsDelim(Head(s))
         THEN IF inRun THEN ReSplit(Tail(s), cur, TRUE)
              ELSE <<cur>> \o ReSplit(Tail(s), <<>>, TRUE)
         ELSE ReSplit(Tail(s), Append(cur, Head(s)), FALSE)

\* re.findall(r"\b\w+\b", s): the maximal runs of word characters.
RECURSIVE ReFindWords(_, _)
ReFindWords(s, cur) ==
    LET done == IF cur = <<>> THEN <<>> ELSE <<cur>>
    IN  IF s = <<>> THEN done
        ELSE IF IsWordChar(Head(s))
             THEN ReFindWords(Tail(s), Append(cur, Head(s)))
             ELSE done \o ReFindWords(Tail(s), <<>>)

\* ---------------------------------------------------------- TrigramModel
NonEmpty(x) == x # <<>>

PrepareSentences(text) ==
    LET sentences == ReSplit(Lower(text), <<>>, FALSE)
        tokens == [k \in 1..Len(sentences) |-> ReFindWords(sentences[k], <<>>)]
    IN  SelectSeq(tokens, NonEmpty)

RECURSIVE Flatten(_)
Flatten(sentences) ==
    IF sentences = <<>> THEN <<>> ELSE Head(sentences) \o Flatten(Tail(sentences))

\* Counter(flat_tokens)[token]
Frequency(flat, token) == Cardinality({k \in 1..Len(flat) : flat[k] = token})

\* Mutant: "count > min_count" in place of "count >= min_count".
BuildVocabularyStrict(sentences_, min_count_) ==
    LET flat == Flatten(sentences_)
        observed == {flat[k] : k \in 1..Len(flat)}
        frequent == {t \in observed : Frequency(flat, t) > min_count_}
        vocab0 == IF frequent = {} THEN observed ELSE frequent
    IN  vocab0 \cup {START_TOKEN, END_TOKEN, UNK_TOKEN}

\* Mutant: the fallback to every observed token is missing.
BuildVocabularyNoFallback(sentences_, min_count_) ==
    LET flat == Flatten(sentences_)
        observed == {flat[k] : k \in 1..Len(flat)}
        frequent == {t \in observed : Frequency(flat, t) >= min_count_}
    IN  frequent \cup {START_TOKEN, END_TOKEN, UNK_TOKEN}

BuildVocabulary(sentences_, min_count_) ==
    LET flat == Flatten(sentences_)
        observed == {flat[k] : k \in 1..Len(flat)}
        frequent == {t \in observed : Frequency(flat, t) >= min_count_}
        vocab0 == IF frequent = {} THEN observed ELSE frequent
    IN  vocab0 \cup {START_TOKEN, END_TOKEN, UNK_TOKEN}

NormalizeSentence(sentence, vocab_) ==
    [k \in 1..Len(sentence) |->
        IF sentence[k] \in vocab_ THEN sentence[k] ELSE UNK_TOKEN]

\* d[word] += 1 on a defaultdict(int) kept in insertion order.
RECURSIVE IndexOf(_, _, _)
IndexOf(d, word, k) ==
    IF k > Len(d) THEN 0 ELSE IF d[k].word = word THEN k ELSE IndexOf(d, word, k + 1)

Increment(d, word) ==
    LET k == IndexOf(d, word, 1)
    IN  IF k = 0 THEN Append(d, [word |-> word, count |-> 1])
        ELSE [d EXCEPT ![k].count = @ + 1]

\* Mutant: the total of a context already seen is set, not incremented.
CountWindowStaleTotal(t, context_, target) ==
    [counts |->
        IF context_ \in DOMAIN t.counts
        THEN [t.counts EXCEPT ![context_] = Increment(@, target)]
        ELSE (context_ :> Increment(<<>>, target)) @@ t.counts,
     context_totals |-> (context_ :> 1) @@ t.context_totals]

\* One iteration of the loop of _update_counts, on the pair of tables
\* t = [counts, context_totals].
CountWindow(t, context_, target) ==
    [counts |->
        IF context_ \in DOMAIN t.counts
        THEN [t.counts EXCEPT ![context_] = Increment(@, target)]
        ELSE (context_ :> Increment(<<>>, target)) @@ t.counts,
     context_totals |->
        IF context_ \in DOMAIN t.context_totals
        THEN [t.context_totals EXCEPT ![context_] = @ + 1]
        ELSE (context_ :> 1) @@ t.context_totals]

\* for idx in range(from_, len(tokens) - (n - 1))
RECURSIVE UpdateCountsFrom(_, _, _, _)
UpdateCountsFrom(t, tokens, n_, idx) ==
    IF idx >= Len(tokens) - (n_ - 1) THEN t
    ELSE UpdateCountsFrom(
            CountWindow(t, SubSeq(tokens, idx + 1, idx + n_ - 1), tokens[idx + n_]),
            tokens, n_, idx + 1)

\* Mutant: range(len(tokens) - n), which drops each sentence's last window.
UpdateCountsSkipsLast(t, tokens, n_) ==
    UpdateCountsFrom(t, SubSeq(tokens, 1, Len(tokens) - 1), n_, 0)

UpdateCounts(t, tokens, n_) == UpdateCountsFrom(t, tokens, n_, 0)

Starts(n_) == [k \in 1..(n_ - 1) |-> START_TOKEN]

Padded(n_, sentence) == Starts(n_) \o sentence \o <<END_TOKEN>>

\* Mutant: the trained flag is not cleared.
ResetModelStateKeepsFlag(m) ==
    [vocab |-> {START_TOKEN, END_TOKEN, UNK_TOKEN},
     counts |-> <<>>,
     context_totals |-> <<>>,
     trained |-> m.trained]

\* Mutant: the two tables are not cleared.
ResetModelStateKeepsTables(m) ==
    [vocab |-> {START_TOKEN, END_TOKEN, UNK_TOKEN},
     counts |-> m.counts,
     context_totals |-> m.context_totals,
     trained |-> FALSE]

\* _reset_model_state on the model's four structures m.
ResetModelState(m) ==
    [vocab |-> {START_TOKEN, END_TOKEN, UNK_TOKEN},
     counts |-> <<>>,
     context_totals |-> <<>>,
     trained |-> FALSE]

\* The loop of fit over the sentences.
RECURSIVE CountSentences(_, _, _, _)
CountSentences(t, sentences, vocab_, n_) ==
    IF sentences = <<>> THEN t
    ELSE CountSentences(
            UpdateCounts(t, Padded(n_, NormalizeSentence(Head(sentences), vocab_)), n_),
            Tail(sentences), vocab_, n_)

\* The surviving sentences of fit(text); none when fit returns early.
FitSentences(text) ==
    LET stripped == Strip(text)
    IN  IF stripped = <<>> THEN <<>> ELSE PrepareSentences(stripped)

\* fit(text) on a model whose structures are m: the structures afterwards.
FitModel(m, n_, min_count_, text) ==
    LET stripped == Strip(text)
        m0 == ResetModelState(m)
        sentences_ == PrepareSentences(stripped)
        vocab_ == BuildVocabulary(sentences_, min_count_)
        t == CountSentences([counts |-> m0.counts,
                             context_totals |-> m0.context_totals],
                            sentences_, vocab_, n_)
    IN  IF stripped = <<>> THEN m0
        ELSE IF sentences_ = <<>> THEN m0
        ELSE [vocab |-> vocab_,
              counts |-> t.counts,
              context_totals |-> t.context_totals,
              trained |-> TRUE]

\* The structures of a newly constructed model (__init__).
NewModel ==
    [vocab |-> {UNK_TOKEN, END_TOKEN, START_TOKEN},
     counts |-> <<>>,
     context_totals |-> <<>>,
     trained |-> FALSE]

\* ------------------------------------------------------------------ state
VARIABLES
    n, min_count,                       \* configuration, set at construction
    vocab, counts, context_totals, trained,   \* the model's structures
    sentences,     \* the surviving sentences of the last fit call
    was_trained,   \* the trained flag at the moment the last fit was called
    fresh,         \* what the last fit's text gives on a newly constructed model
    op,            \* the last call: "new" (the constructor), "fit" or "generate"
    pc,            \* "idle", or "loop" inside generate
    max_length,    \* the argument of the last call when it was generate, else 0
    i, context, generated,              \* generate's locals
    result         \* what the last call returned when it was generate, else ""

vars == <<n, min_count, vocab, counts, context_totals, trained, sentences,
          was_trained, fresh, op, pc, max_length, i, context, generated, result>>

model == [vocab |-> vocab, counts |-> counts,
          context_totals |-> context_totals, trained |-> trained]

Init ==
    /\ n \in 2..MaxN
    /\ min_count \in 1..MaxMinCount
    /\ vocab = NewModel.vocab
    /\ counts = NewModel.counts
    /\ context_totals = NewModel.context_totals
    /\ trained = NewModel.trained
    /\ sentences = <<>>
    /\ was_trained = FALSE
    /\ fresh = NewModel
    /\ op = "new"
    /\ pc = "idle"
    /\ max_length = 0
    /\ i = 0
    /\ context = <<>>
    /\ generated = <<>>
    /\ result = <<>>

Fit(text) ==
    /\ pc = "idle"
    /\ LET m == FitModel(model, n, min_count, text)
       IN  /\ vocab' = m.vocab
           /\ counts' = m.counts
           /\ context_totals' = m.context_totals
           /\ trained' = m.trained
    /\ sentences' = FitSentences(text)
    /\ was_trained' = trained
    /\ fresh' = FitModel(NewModel, n, min_count, text)
    /\ op' = "fit"
    /\ max_length' = 0
    /\ result' = <<>>
    /\ UNCHANGED <<n, min_count, pc, i, context, generated>>

\* sum(context_counts.values())
RECURSIVE SumCounts(_)
SumCounts(d) == IF d = <<>> THEN 0 ELSE Head(d).count + SumCounts(Tail(d))

\* The walk of _sample_next_word over context_counts.items(): the first word
\* whose cumulative count reaches the threshold, the end token when none does.
RECURSIVE Walk(_, _, _, _)
Walk(d, threshold, k, cumulative) ==
    IF k > Len(d) THEN END_TOKEN
    ELSE IF cumulative + d[k].count >= threshold THEN d[k].word
    ELSE Walk(d, threshold, k + 1, cumulative + d[k].count)

\* random.uniform(0, total) is a real in [0, total]; the walk compares it
\* with integer cumulative counts only, so a draw x acts as the integer
\* ceiling of x: the integers 0..total give every outcome.
Thresholds(total) == 0..total

\* self.counts[key] on the defaultdict: the table after the subscript, which
\* creates an empty entry for a missing key.
Subscripted(counts_, key) ==
    IF key \in DOMAIN counts_ THEN counts_ ELSE (key :> <<>>) @@ counts_

\* _sample_next_word(context): the set of [word, counts] it can end with,
\* word the value returned and counts the table afterwards.
SampleNextWord(counts_, totals_, n_, context_) ==
    LET ctx == IF context_ \notin DOMAIN counts_ THEN Starts(n_) ELSE context_
    IN  IF context_ \notin DOMAIN counts_ /\ ctx \notin DOMAIN counts_
        THEN {[word |-> END_TOKEN, counts |-> counts_]}
        ELSE LET after == Subscripted(counts_, ctx)
                 context_counts == after[ctx]
                 total == IF ctx \in DOMAIN totals_ THEN totals_[ctx]
                          ELSE SumCounts(context_counts)
             IN  IF total = 0 THEN {[word |-> END_TOKEN, counts |-> after]}
                 ELSE {[word |-> Walk(context_counts, th, 1, 0), counts |-> after] :
                          th \in Thresholds(total)}

\* " ".join(generated)
RECURSIVE Join(_)
Join(words) ==
    IF words = <<>> THEN <<>>
    ELSE IF Len(words) = 1 THEN Head(words)
    ELSE Head(words) \o <<" ">> \o Join(Tail(words))

\* Mutant: the oldest token is not dropped.
AdvanceKeepsOldest(context_, next_word) == context_ \o <<next_word>>

\* tuple(list(context[1:]) + [next_word])
Advance(context_, next_word) == Tail(context_) \o <<next_word>>

\* return " ".join(generated): generate's locals are gone afterwards.
Return(words) ==
    /\ result' = Join(words)
    /\ pc' = "idle"
    /\ i' = 0
    /\ context' = <<>>
    /\ generated' = <<>>

\* Mutant: "if not self.counts[context]" as the emptiness test, a subscript
\* that creates the start context's entry in the defaultdict.
GenerateCallSubscripts(k) ==
    /\ pc = "idle"
    /\ op' = "generate"
    /\ max_length' = k
    /\ counts' = Subscripted(counts, Starts(n))
    /\ IF ~trained \/ counts'[Starts(n)] = <<>>
       THEN Return(<<>>)
       ELSE /\ pc' = "loop"
            /\ i' = 0
            /\ context' = Starts(n)
            /\ generated' = <<>>
            /\ UNCHANGED result
    /\ UNCHANGED <<n, min_count, vocab, context_totals, trained, sentences,
                   was_trained, fresh>>

\* generate(k) up to the loop: the early return, or the locals initialised.
GenerateCall(k) ==
    /\ pc = "idle"
    /\ op' = "generate"
    /\ max_length' = k
    /\ IF ~trained \/ DOMAIN counts = {}
       THEN /\ Return(<<>>)
            /\ UNCHANGED counts
       ELSE /\ pc' = "loop"
            /\ i' = 0
            /\ context' = Starts(n)
            /\ generated' = <<>>
            /\ UNCHANGED <<result, counts>>
    /\ UNCHANGED <<n, min_count, vocab, context_totals, trained, sentences,
                   was_trained, fresh>>

\* Mutant: the word is appended before it is compared with the end token.
GenerateStepAppendsFirst ==
    /\ pc = "loop"
    /\ i < max_length
    /\ \E r \in SampleNextWord(counts, context_totals, n, context) :
          /\ counts' = r.counts
          /\ IF r.word = END_TOKEN
             THEN Return(Append(generated, r.word))
             ELSE /\ generated' = Append(generated, r.word)
                  /\ context' = Advance(context, r.word)
                  /\ i' = i + 1
                  /\ UNCHANGED <<pc, result>>
    /\ UNCHANGED <<n, min_count, vocab, context_totals, trained, sentences,
                   was_trained, fresh, op, max_length>>

\* Mutant: range(max_length + 1).
GenerateStepRunsOver ==
    /\ pc = "loop"
    /\ i <= max_length
    /\ \E r \in SampleNextWord(counts, context_totals, n, context) :
          /\ counts' = r.counts
          /\ IF r.word = END_TOKEN
             THEN Return(generated)
             ELSE /\ generated' = Append(generated, r.word)
                  /\ context' = Advance(context, r.word)
                  /\ i' = i + 1
                  /\ UNCHANGED <<pc, result>>
    /\ UNCHANGED <<n, min_count, vocab, context_totals, trained, sentences,
                   was_trained, fresh, op, max_length>>

\* One iteration of the loop of generate.
GenerateStep ==
    /\ pc = "loop"
    /\ i < max_length
    /\ \E r \in SampleNextWord(counts, context_totals, n, context) :
          /\ counts' = r.counts
          /\ IF r.word = END_TOKEN
             THEN Return(generated)
             ELSE /\ generated' = Append(generated, r.word)
                  /\ context' = Advance(context, r.word)
                  /\ i' = i + 1
                  /\ UNCHANGED <<pc, result>>
    /\ UNCHANGED <<n, min_count, vocab, context_totals, trained, sentences,
                   was_trained, fresh, op, max_length>>

\* The loop of generate ran max_length times.
GenerateReturn ==
    /\ pc = "loop"
    /\ i >= max_length
    /\ Return(generated)
    /\ UNCHANGED <<n, min_count, vocab, counts, context_totals, trained,
                   sentences, was_trained, fresh, op, max_length>>

Next ==
    \/ \E text \in Texts : Fit(text)
    \/ \E k \in 0..MaxGenLen : GenerateCall(k)
    \/ GenerateStep
    \/ GenerateReturn

Spec == Init /\ [][Next]_vars

\* generate is a loop of at most max_length iterations that nothing suspends:
\* once entered, its iterations and its return are taken.
FairSpec == Spec /\ WF_vars(GenerateStep) /\ WF_vars(GenerateReturn)
\* ================================================================ claims
\* What the claims speak of, read off the state.
Flat == Flatten(sentences)
Observed == {Flat[k] : k \in 1..Len(Flat)}
Occurrences(token) == Cardinality({k \in 1..Len(Flat) : Flat[k] = token})

\* counts[c][t], 0 when either key is absent.
RECURSIVE CountIn(_, _)
CountIn(d, word) ==
    IF d = <<>> THEN 0
    ELSE IF Head(d).word = word THEN Head(d).count
    ELSE CountIn(Tail(d), word)

Count(c, t) == IF c \in DOMAIN counts THEN CountIn(counts[c], t) ELSE 0

Targets(c) == {counts[c][k].word : k \in 1..Len(counts[c])}
ContextTokens == UNION {{c[k] : k \in 1..Len(c)} : c \in DOMAIN counts}
TargetTokens == UNION {Targets(c) : c \in DOMAIN counts}

\* The number of windows whose target is t.
RECURSIVE SumOver(_, _)
SumOver(cs, t) ==
    IF cs = {} THEN 0
    ELSE LET c == CHOOSE x \in cs : TRUE
         IN  Count(c, t) + SumOver(cs \ {c}, t)

TargetCount(t) == SumOver(DOMAIN counts, t)

RECURSIVE SumTotals(_)
SumTotals(cs) ==
    IF cs = {} THEN 0
    ELSE LET c == CHOOSE x \in cs : TRUE
         IN  context_totals[c] + SumTotals(cs \ {c})

\* The tokens of a returned string: its maximal runs of non-space characters.
RECURSIVE SplitSpaces(_, _)
SplitSpaces(s, cur) ==
    LET done == IF cur = <<>> THEN <<>> ELSE <<cur>>
    IN  IF s = <<>> THEN done
        ELSE IF Head(s) = " " THEN done \o SplitSpaces(Tail(s), <<>>)
        ELSE SplitSpaces(Tail(s), Append(cur, Head(s)))

ResultTokens == SplitSpaces(result, <<>>)
Returned == op = "generate" /\ pc = "idle"

\* C1: the transition table and the context-total table have the same
\* context keys, and every context's next-token counts sum to its total.
C1_TablesConsistent ==
    /\ DOMAIN counts = DOMAIN context_totals
    /\ \A c \in DOMAIN counts : SumCounts(counts[c]) = context_totals[c]

\* A second fit on a trained model left a context with two different
\* next tokens and a total of three or more.
C1_Witness ==
    /\ op = "fit" /\ was_trained /\ trained
    /\ \E c \in DOMAIN counts : Len(counts[c]) >= 2 /\ context_totals[c] >= 3

\* C2: after a fit whose text has no word token (empty, whitespace only,
\* punctuation only), on a new or a trained model, the model is untrained
\* with both tables empty, and every generate that follows returns "".
C2_DegenerateFitUntrained ==
    (op # "new" /\ sentences = <<>>) =>
        /\ ~trained
        /\ DOMAIN counts = {}
        /\ DOMAIN context_totals = {}
        /\ pc = "idle"
        /\ result = <<>>

\* generate(k), k > 0, returned after a degenerate fit on a trained model.
C2_Witness ==
    /\ Returned /\ max_length > 0
    /\ sentences = <<>> /\ was_trained
    /\ result = <<>>

\* C3: neither "<s>" nor "</s>" is a token of what generate has collected
\* or of the string it returns.
C3_NoMarkerEmitted ==
    /\ \A k \in 1..Len(generated) : generated[k] \notin {START_TOKEN, END_TOKEN}
    /\ Returned =>
          \A k \in 1..Len(ResultTokens) :
              ResultTokens[k] \notin {START_TOKEN, END_TOKEN}

\* generate returned a non-empty string short of max_length: the end token
\* was sampled and stopped it.
C3_Witness ==
    /\ Returned /\ trained
    /\ result # <<>>
    /\ Len(ResultTokens) < max_length

\* What C4 says of the tokens of the last corpus.
FoldedAsClaimed ==
    \A t \in Observed :
        /\ Occurrences(t) = 1 =>
              /\ t \notin vocab
              /\ t \notin ContextTokens
              /\ t \notin TargetTokens
        /\ Occurrences(t) >= 2 =>
              /\ t \in vocab
              /\ TargetCount(t) = Occurrences(t)

\* C4 as stated: with min_count = 2, for every corpus, a token occurring
\* once is folded and a token occurring twice or more is kept verbatim.
C4_Original == (trained /\ min_count = 2) => FoldedAsClaimed

\* C4 amended: the same, for every corpus in which at least one token
\* occurs twice or more.
C4_FoldingWhenSomeTokenFrequent ==
    (trained /\ min_count = 2 /\ \E t \in Observed : Occurrences(t) >= 2) =>
        /\ FoldedAsClaimed
        /\ TargetCount(UNK_TOKEN) =
              Cardinality({k \in 1..Len(Flat) : Occurrences(Flat[k]) = 1})

\* A corpus with a token occurring once and a token occurring twice.
C4_Witness ==
    /\ op = "fit" /\ trained /\ min_count = 2
    /\ \E t \in Observed : Occurrences(t) = 1
    /\ \E t \in Observed : Occurrences(t) >= 2

\* C5: when no token of a non-empty corpus reaches min_count, the vocabulary
\* is every observed token plus the three markers and nothing is folded;
\* after any successful fit the vocabulary has a non-reserved token.
C5_VocabularyFallback ==
    trained =>
        /\ vocab \ Reserved # {}
        /\ (\A t \in Observed : Occurrences(t) < min_count) =>
              /\ vocab = Observed \cup Reserved
              /\ UNK_TOKEN \notin ContextTokens \cup TargetTokens

\* A corpus of two or more different tokens, none reaching min_count.
C5_Witness ==
    /\ op = "fit" /\ trained
    /\ Cardinality(Observed) >= 2
    /\ \A t \in Observed : Occurrences(t) < min_count

\* C6: after fit(b), whatever the model held before, its four structures
\* are those of a newly constructed model after fit(b).
C6_FitIsFullReset == op = "fit" => model = fresh

\* A successful fit on a model that an earlier fit had trained.
C6_Witness == op = "fit" /\ was_trained /\ trained /\ Len(Flat) >= 2

\* C7: no step of generate changes the vocabulary, either table or the
\* trained flag.
C7_GenerateReadsOnly ==
    [][op' = "generate" => UNCHANGED <<vocab, counts, context_totals, trained>>]_vars

\* generate sampled at least once on a trained model and returned.
C7_Witness == Returned /\ trained /\ result # <<>>

\* The sentences as fit counts them: folded, n-1 start tokens in front and
\* one end token behind.
FoldedPadded(k) ==
    [j \in 1..(n - 1) |-> START_TOKEN]
        \o [j \in 1..Len(sentences[k]) |->
               IF sentences[k][j] \in vocab THEN sentences[k][j] ELSE UNK_TOKEN]
        \o <<END_TOKEN>>

\* The positions of sentence k where context c is immediately followed by t.
Positions(k, c, t) ==
    LET s == FoldedPadded(k)
    IN  {p \in 1..(Len(s) - (n - 1)) :
            SubSeq(s, p, p + n - 2) = c /\ s[p + n - 1] = t}

RECURSIVE Followed(_, _, _)
Followed(k, c, t) ==
    IF k = 0 THEN 0 ELSE Cardinality(Positions(k, c, t)) + Followed(k - 1, c, t)

SeenContexts ==
    UNION {{SubSeq(FoldedPadded(k), p, p + n - 2) :
               p \in 1..(Len(FoldedPadded(k)) - (n - 1))} : k \in 1..Len(sentences)}
SeenTokens == Observed \cup Reserved

RECURSIVE WindowsExpected(_)
WindowsExpected(k) ==
    IF k = 0 THEN 0 ELSE Len(sentences[k]) + 1 + WindowsExpected(k - 1)

A == <<"a">>
B == <<"b">>
Entry(word, count) == [word |-> word, count |-> count]

\* C8: after a successful fit the count of t after c is the number of
\* positions, sentence by sentence, where c is immediately followed by t in
\* the folded, padded sentence; a sentence of L tokens gives L+1 windows;
\* for n = 2 and "a b. a b." the table is <s> -> a:2, a -> b:2, b -> </s>:2.
C8_CountsAreWindowCounts ==
    trained =>
        /\ DOMAIN counts = SeenContexts
        /\ \A c \in SeenContexts : \A t \in SeenTokens :
              Count(c, t) = Followed(Len(sentences), c, t)
        /\ \A c \in DOMAIN counts : Targets(c) \subseteq SeenTokens
        /\ SumTotals(DOMAIN context_totals) = WindowsExpected(Len(sentences))
        /\ (n = 2 /\ sentences = <<<<A, B>>, <<A, B>>>>) =>
              counts = (<<START_TOKEN>> :> <<Entry(A, 2)>>)
                          @@ (<<A>> :> <<Entry(B, 2)>>)
                          @@ (<<B>> :> <<Entry(END_TOKEN, 2)>>)

\* The bigram model fitted on "a b. a b.".
C8_Witness ==
    op = "fit" /\ trained /\ n = 2 /\ sentences = <<<<A, B>>, <<A, B>>>>

\* C9: generate's loop runs at most max_length times and then returns (it
\* terminates whatever is drawn), the string returned has at most max_length
\* tokens, and generate(0) returns "".
C9_GenerateTerminates ==
    /\ [](pc = "loop" => Len(generated) = i /\ i <= max_length)
    /\ [](Returned =>
            /\ Len(ResultTokens) <= max_length
            /\ max_length = 0 => result = <<>>)
    /\ (pc = "loop") ~> (pc = "idle")

\* generate returned max_length tokens, the most it may.
C9_Witness ==
    /\ Returned /\ trained
    /\ max_length = MaxGenLen
    /\ Len(ResultTokens) = max_length

\* C10: inside generate's loop the context is a key of the transition table
\* with a positive total, so _sample_next_word takes neither its fallback nor
\* an end-token return for a missing context or a zero total; every token
\* emitted after a context was counted after it in training.
C10_ContextsWereObserved ==
    pc = "loop" =>
        /\ context \in DOMAIN counts
        /\ context \in DOMAIN context_totals
        /\ context_totals[context] > 0
        /\ LET out == Starts(n) \o generated
           IN  \A p \in 1..Len(generated) :
                   Count(SubSeq(out, p, p + n - 2), out[p + n - 1]) >= 1

\* The loop is about to sample from a context a generated token is part of.
C10_Witness ==
    /\ pc = "loop" /\ i >= 1 /\ i < max_length
    /\ context # Starts(n)
====
